---- MODULE Spec2Model ----
(***************************************************************************)
(* The resilient API access layer of coda_exporter.py (class CodaAPI):     *)
(*   _make_request  the retry loop around one logical HTTP call,           *)
(*   paginate       the generator walking a cursor-based listing,          *)
(*   export_page    submit, poll and download of one page export.          *)
(* and of what is built on it:                                             *)
(*   run_export     CodaExporter's walk over documents, tables and pages,  *)
(*   two paginate generators that share one CodaAPI instance.              *)
(* Time is counted in milliseconds.  Each specification below runs one     *)
(* top-level operation against every behaviour of the remote server.       *)
(***************************************************************************)
EXTENDS Integers, Sequences, FiniteSets, TLC

VARIABLES
    op,             \* the top-level operation: "request", "paginate", "export",
                    \* "run_export", "concurrent"
    \* ---- one call of _make_request -------------------------------------
    rqPc,           \* "idle", "loop", "returned", "raised"
    rqCaller,       \* "plain", "page", "submit", "poll"
    max_retries,    \* the parameter max_retries of the call
    attempt,        \* the loop variable of the for loop
    rqResult,       \* the body returned or the exception raised
    ep404,          \* TRUE iff the text of the endpoint contains "404"
    nreq,           \* HTTP requests issued by this call
    n429,           \* ... of which answered 429
    nRetry3,        \* ... of which ended in 5xx, timeout or connection error
    slept,          \* time slept since the last HTTP response of this call
    waitBefore,     \* time slept between the last two HTTP requests of this call
    prev,           \* the outcome of the attempt before the last request
    last,           \* the outcome of the last attempt
    \* ---- the enclosing operation -----------------------------------------
    seen401,        \* the operation has received a 401
    reqAfter401,    \* the operation has issued a request after a 401
    \* ---- one paginate generator and its consumer ------------------------
    pages,          \* the server's listing: page k is what token TokenOf(k) names
    pgPc,           \* "none", "top", "get", "items", "done", "raised"
    demand,         \* the consumer has asked for the next item
    params,         \* the caller's params mapping: pageToken and one other key
    next_page_token,
    response,       \* the page being iterated
    idx,            \* the position of the for loop in response's items
    yielded,        \* the items delivered to the consumer (the first LogCap)
    pgError,        \* the exception that left the generator
    pageReqs,       \* calls of self.get made by the generator (up to ReqCap)
    \* ---- one call of export_page ------------------------------------------
    exPc,           \* "none", "posting", "poll_top", "polling", "download",
                    \* "done", "raised"
    request_id,
    pollIndex,      \* the loop variable `attempt` of the poll loop
    consecutive_failures,
    status_data,    \* the body of the last status poll that returned
    download_url,
    download_attempt,
    exResult,       \* the text returned or the exception raised
    pollWait,       \* the sleep that ended the last iteration of the poll loop
    downloadWait,   \* the sleep that followed the last failed download attempt
    polls,          \* status polls (calls of self.get) made
    downloads,      \* download requests made
    downloadedFrom, \* the URL of the last download request
    cleanPolls,     \* every status poll so far returned a body
    terminal,       \* the first terminal status a poll reported, and the
    terminalText,   \*   error text that came with it
    afterTerminal,  \* polls and downloads started after a poll reported 'failed'
    execFailRun,    \* the most recent polls, this many, all raised in _make_request
    gracedRun,      \* ... of which answered 404 while the loop index was below 5
    \* ---- one call of CodaExporter.run_export ------------------------------
    runPc,          \* "none", "verify", "docs", "get_doc", "tables", "table_meta",
                    \* "columns", "column", "rows", "view", "pages",
                    \* "page_format", "returned", "raised"
    runResult,      \* the value returned or the exception raised
    docs_list,      \* the documents discovered
    docIdx,         \* the position of run_export's for loop in docs_list
    listed,         \* items the listing being iterated has delivered
    columnsLeft,    \* columns of the current table still to be enhanced
    formatIdx,      \* the position of the for loop over export_formats
    content_type,   \* contentType of the current page
    failedCalls,    \* the API calls of this run that raised CodaAPIError
    \* ---- paginate generators sharing one CodaAPI instance ----------------
    self,           \* the attributes of the instance
    frames,         \* the local variables of each generator
    heap,           \* the params mappings the callers passed
    listing,        \* the server's listing of the endpoint
    failAt,         \* the page whose fetch the server answers 403 (0: none)
    \* ---- the caller's wish to cancel -----------------------------------
    cancelled,      \* the caller wants the operation to stop
    reqAfterCancel  \* an HTTP request was issued after that

rqVars == <<rqPc, rqCaller, max_retries, attempt, rqResult, ep404, nreq, n429,
            nRetry3, slept, waitBefore, prev, last>>
opVars == <<seen401, reqAfter401>>
pgVars == <<pages, pgPc, demand, params, next_page_token, response, idx,
            yielded, pgError, pageReqs>>
exVars == <<exPc, request_id, pollIndex, consecutive_failures,
            status_data, download_url, download_attempt, exResult, pollWait,
            downloadWait, polls, downloads, downloadedFrom, cleanPolls, terminal,
            terminalText, afterTerminal, execFailRun, gracedRun>>
runVars == <<runPc, runResult, docs_list, docIdx, listed, columnsLeft,
             formatIdx, content_type, failedCalls>>
ccVars == <<self, frames, heap, listing, failAt>>
cancelVars == <<cancelled, reqAfterCancel>>
vars == <<op, rqVars, opVars, pgVars, exVars, runVars, ccVars, cancelVars>>

-----------------------------------------------------------------------------
(* Bounds of the model *)
MaxRetriesBound == 3        \* max_retries ranges over 0..MaxRetriesBound
MaxPages == 2               \* the listing has 1..MaxPages pages

(* Constants of the program *)
DefaultMaxRetries == 3
DefaultRetryAfter == 60
RateLimitDelayMs == 100

Seconds(n) == n * 1000

-----------------------------------------------------------------------------
(* The outcomes of one HTTP attempt, as requests.request produces them *)

None == "None"

\* the values of the Retry-After header of a 429: absent, a number of seconds
\* or an HTTP date
RetryAfterHeaders == {None, "1", "5", "Wed, 21 Oct 2026 07:28:00 GMT"}

IsDecimal(s) == s \in {"1", "5"}

\* int(s) of a decimal string
ParseInt(s) == CASE s = "1" -> 1
                 [] s = "5" -> 5

StatusCodes == {200, 400, 401, 403, 404, 422, 429, 500, 503}

\* kind: "response" (a status code came back), "timeout", "conn", "neterr"
\* json: the content type of the response is application/json
\* txt404: the text the server or the transport supplies (the 'message' of an
\*         error body, the text of the exception) contains "404"
Outcome(kind, code, hdr, json, txt404) ==
    [kind |-> kind, code |-> code, retry_after |-> hdr, json |-> json,
     txt404 |-> txt404]

NoOutcome == Outcome("none", 0, None, FALSE, FALSE)

HttpOutcomes ==
    {Outcome("response", 200, None, j, FALSE) : j \in BOOLEAN}
    \cup {Outcome("response", 429, h, TRUE, FALSE) : h \in RetryAfterHeaders}
    \cup {Outcome("response", c, None, TRUE, t) :
             c \in StatusCodes \ {200, 429}, t \in BOOLEAN}
    \cup {Outcome(k, 0, None, FALSE, t) :
             k \in {"timeout", "conn", "neterr"}, t \in BOOLEAN}

-----------------------------------------------------------------------------
(* Exceptions *)

\* CodaAPIError(msg): the parts of msg the program or a claim looks at.
\*   why        which raise statement built it
\*   code       the status code named in the message (0: none)
\*   reason     the concrete reason appended for 401, 403, 404 and 5xx
\*   endpoint404, detail404   the endpoint (the supplied text) is part of the
\*              message and contains "404"
\*   attempts   the number of attempts the message reports (0: none)
\*   text       the server's error text of a failed job (None: none)
CodaAPIError(why, code, reason, endpoint404, detail404, attempts, text) ==
    [exc |-> "CodaAPIError", why |-> why, code |-> code, reason |-> reason,
     endpoint404 |-> endpoint404, detail404 |-> detail404,
     attempts |-> attempts, text |-> text]

\* int() of a Retry-After header that is no decimal number
ValueError ==
    [exc |-> "ValueError", why |-> "int", code |-> 0, reason |-> "",
     endpoint404 |-> FALSE, detail404 |-> FALSE, attempts |-> 0, text |-> None]

\* "404" in str(e)
Contains404(e) == e.code = 404 \/ e.endpoint404 \/ e.detail404

NoResult == [tag |-> "none", val |-> None]
Return(v) == [tag |-> "return", val |-> v]
Raise(e) == [tag |-> "raise", val |-> e]

-----------------------------------------------------------------------------
(* _make_request: one iteration of the attempt loop *)

\* what the rest of an iteration does: leave the loop by return or raise, or
\* continue with the next value of attempt, after sleeping `sleep`
Continue(ms) == [next |-> "continue", result |-> NoResult, sleep |-> ms]
Leave(r, ms) == [next |-> r.tag, result |-> r, sleep |-> ms]

\* a schedule that doubles from one second instead of two
BackoffFromOne(a) == IF a > 0 THEN Seconds(2 ^ (a - 1)) ELSE 0

\* the sleep before the request of attempt a
Backoff(a) == IF a > 0 THEN Seconds(2 ^ a) ELSE 0

\* int(response.headers.get('Retry-After', 60))
RetryAfter(hdr) == IF hdr = None THEN DefaultRetryAfter ELSE ParseInt(hdr)

OnRateLimited(o) ==
    IF o.retry_after # None /\ ~IsDecimal(o.retry_after)
    THEN Leave(Raise(ValueError), 0)
    ELSE Continue(Seconds(RetryAfter(o.retry_after)))

\* response.json() or {"content": response.text}
Body(o, payload) == IF o.json THEN payload ELSE [content |-> payload]

OnSuccess(o, payload) == Leave(Return(Body(o, payload)), RateLimitDelayMs)

\* the handlers of Timeout, ConnectionError and RequestException
OnTransportError(o, a, mr) ==
    IF a = mr
    THEN Leave(Raise(CodaAPIError(o.kind, 0, "", FALSE, o.txt404, mr + 1, None)), 0)
    ELSE Continue(0)

Reason(code) ==
    IF code = 401 THEN "Invalid API token"
    ELSE IF code = 403 THEN "Access forbidden (check permissions)"
    ELSE IF code = 404 THEN "Resource not found"
    ELSE IF code >= 500 THEN "Server error (try again later)"
    ELSE ""

\* a retry test that takes 404 and above for a server error
RetriesFrom404(code, a, mr) == code >= 404 /\ a < mr

\* a server error is retried while attempts remain
RetriesServerError(code, a, mr) == code >= 500 /\ a < mr

\* the handler of HTTPError
OnHTTPError(o, a, mr, ep) ==
    IF RetriesServerError(o.code, a, mr)
    THEN Continue(0)
    ELSE Leave(Raise(CodaAPIError("http", o.code, Reason(o.code), ep, o.txt404,
                                  0, None)), 0)

\* raise_for_status: 4xx and 5xx raise HTTPError
IsHTTPError(code) == code >= 400 /\ code < 600

Handle(o, payload, a, mr, ep) ==
    IF o.kind # "response" THEN OnTransportError(o, a, mr)
    ELSE IF o.code = 429 THEN OnRateLimited(o)
    ELSE IF IsHTTPError(o.code) THEN OnHTTPError(o, a, mr, ep)
    ELSE OnSuccess(o, payload)

\* the statement after the loop
UnexpectedError == CodaAPIError("unexpected", 0, "", ep404, FALSE, 0, None)

\* the loop goes on while range(max_retries + 1) has a next value
HasNextAttempt(a, mr) == a + 1 <= mr

IsRetry3(o) == o.kind \in {"timeout", "conn"} \/ (o.kind = "response" /\ o.code >= 500)

IsOk(o) == o.kind = "response" /\ ~IsHTTPError(o.code)

\* One iteration of the loop, as the values it leaves behind: the backoff
\* sleep, the request, and the handling of its outcome o (payload: what a
\* successful response carries).
Iteration(o, payload) ==
    LET e == Handle(o, payload, attempt, max_retries, ep404)
        more == HasNextAttempt(attempt, max_retries)
    IN [pc |-> IF e.next = "continue"
               THEN (IF more THEN "loop" ELSE "raised")
               ELSE (IF e.next = "return" THEN "returned" ELSE "raised"),
        attempt |-> IF e.next = "continue" /\ more THEN attempt + 1 ELSE attempt,
        result |-> IF e.next = "continue"
                   THEN (IF more THEN rqResult ELSE Raise(UnexpectedError))
                   ELSE e.result,
        nreq |-> nreq + 1,
        n429 |-> n429 + (IF o.code = 429 THEN 1 ELSE 0),
        nRetry3 |-> nRetry3 + (IF IsRetry3(o) THEN 1 ELSE 0),
        waitBefore |-> slept + Backoff(attempt),
        slept |-> e.sleep,
        prev |-> last,
        last |-> o]

\* the call goes on from the values an iteration left
Proceed(it) ==
    /\ rqPc' = it.pc
    /\ attempt' = it.attempt
    /\ rqResult' = it.result
    /\ nreq' = it.nreq
    /\ n429' = it.n429
    /\ nRetry3' = it.nRetry3
    /\ waitBefore' = it.waitBefore
    /\ slept' = it.slept
    /\ prev' = it.prev
    /\ last' = it.last
    /\ UNCHANGED <<rqCaller, max_retries, ep404>>

\* what the enclosing operation has seen of 401 responses
Observe(o) ==
    /\ reqAfter401' = (reqAfter401 \/ seen401)
    /\ seen401' = (seen401 \/ o.code = 401)

\* the payloads a server can send with outcome o
PayloadsOf(o, bodies) == IF IsOk(o) THEN bodies ELSE {None}

\* the state of a call that has just been entered
CallStarts(caller, mr, ep) ==
    /\ rqPc' = "loop"
    /\ rqCaller' = caller
    /\ max_retries' = mr
    /\ ep404' = ep
    /\ attempt' = 0
    /\ rqResult' = NoResult
    /\ nreq' = 0 /\ n429' = 0 /\ nRetry3' = 0
    /\ slept' = 0 /\ waitBefore' = 0
    /\ prev' = NoOutcome /\ last' = NoOutcome

\* the state of _make_request after its result was taken
CallEnds ==
    /\ rqPc' = "idle"
    /\ rqCaller' = "plain"
    /\ max_retries' = DefaultMaxRetries
    /\ ep404' = FALSE
    /\ attempt' = 0
    /\ rqResult' = NoResult
    /\ nreq' = 0 /\ n429' = 0 /\ nRetry3' = 0
    /\ slept' = 0 /\ waitBefore' = 0
    /\ prev' = NoOutcome /\ last' = NoOutcome

\* no call of _make_request is active
RqIdle ==
    /\ rqPc = "idle"
    /\ rqCaller = "plain"
    /\ max_retries = DefaultMaxRetries
    /\ ep404 = FALSE
    /\ attempt = 0
    /\ rqResult = NoResult
    /\ nreq = 0 /\ n429 = 0 /\ nRetry3 = 0
    /\ slept = 0 /\ waitBefore = 0
    /\ prev = NoOutcome /\ last = NoOutcome

\* the outcomes the operations built on _make_request are run against: the
\* API answers in JSON, and every branch of the handlers has one outcome
OpOutcomes ==
    {Outcome("response", 200, None, TRUE, FALSE)}
    \cup {Outcome("response", c, None, TRUE, FALSE) : c \in {401, 404, 429, 500}}
    \cup {Outcome(k, 0, None, FALSE, FALSE) : k \in {"timeout", "conn"}}

-----------------------------------------------------------------------------
(* export_page: the state when no export is running *)

\* a body of the status endpoint: {status, downloadLink?, error?}
Status(st, link, err) == [status |-> st, downloadLink |-> link, error |-> err]
NoStatus == Status("none", None, None)

ExNone ==
    /\ exPc = "none"
    /\ request_id = None
    /\ pollIndex = 0
    /\ consecutive_failures = 0
    /\ status_data = NoStatus
    /\ download_url = None
    /\ download_attempt = 0
    /\ exResult = NoResult
    /\ pollWait = 0
    /\ downloadWait = 0
    /\ polls = 0
    /\ downloads = 0
    /\ downloadedFrom = None
    /\ cleanPolls = TRUE
    /\ terminal = "none"
    /\ terminalText = None
    /\ afterTerminal = FALSE
    /\ execFailRun = 0
    /\ gracedRun = 0

\* no run of run_export exists
RunNone ==
    /\ runPc = "none"
    /\ runResult = NoResult
    /\ docs_list = <<>>
    /\ docIdx = 0
    /\ listed = 0
    /\ columnsLeft = 0
    /\ formatIdx = 0
    /\ content_type = None
    /\ failedCalls = {}

\* the caller has not asked to cancel
NoCancel ==
    /\ cancelled = FALSE
    /\ reqAfterCancel = FALSE

\* no generators share an instance
CcNone ==
    /\ self = None
    /\ frames = <<>>
    /\ heap = <<>>
    /\ listing = <<>>
    /\ failAt = 0

-----------------------------------------------------------------------------
(* paginate *)

\* the page tokens the server issues, and the page each names
TokenOf(k) == CASE k = 1 -> "t1" [] k = 2 -> "t2" [] k = 3 -> "t3" [] k = 4 -> "t4"
PageOf(tok) == CHOOSE k \in 1..4 : TokenOf(k) = tok

ItemLists == {<<>>, <<"a">>, <<"b", "a">>, <<"a", "a">>}
LongestList ==
    CHOOSE n \in 0..4 : /\ \E l \in ItemLists : Len(l) = n
                        /\ \A l \in ItemLists : Len(l) <= n

\* a response of a listing endpoint; nextPageToken is None when the key is
\* missing, and the server may also send the empty string
Page(items, tok) == [items |-> items, nextPageToken |-> tok]
NoPage == Page(<<>>, None)

\* The listings of m pages: page k < m names page k + 1, and the last page
\* carries no token, an empty one, or the token of a page already served
\* (a server that repeats or cycles its tokens).
ListingsOf(m) ==
    {f \in [1..m -> {Page(l, t) : l \in ItemLists,
                                  t \in {None, ""} \cup {TokenOf(k) : k \in 1..m}}] :
        /\ \A k \in 1..(m - 1) : f[k].nextPageToken = TokenOf(k + 1)
        /\ f[m].nextPageToken \in {None, ""} \cup {TokenOf(k) : k \in 1..m}}

Listings == UNION {ListingsOf(m) : m \in 1..MaxPages}

\* the page the server answers a request with: the first one without
\* pageToken, else the one the token names
ServerPage(tok) == IF tok = None THEN pages[1] ELSE pages[PageOf(tok)]

LogCap == MaxPages * LongestList
ReqCap == MaxPages + 1

\* Python's truth value of a token: None and "" are false
Truthy(tok) == tok # None /\ tok # ""

\* the values of the query parameter the caller passes (list_rows passes
\* valueFormat; None: the key is missing)
ParamValues == {None, "rich"}

NoParams == [pageToken |-> None, valueFormat |-> None]

\* no generator exists
PgNone ==
    /\ pages = <<>>
    /\ pgPc = "none"
    /\ demand = FALSE
    /\ params = NoParams
    /\ next_page_token = None
    /\ response = NoPage
    /\ idx = 0
    /\ yielded = <<>>
    /\ pgError = NoResult
    /\ pageReqs = 0

\* the generator object exists, its body has not started
InitPaginate ==
    /\ op = "paginate"
    /\ RqIdle
    /\ seen401 = FALSE /\ reqAfter401 = FALSE
    /\ pages \in Listings
    /\ pgPc = "top"
    /\ demand = FALSE
    /\ params \in {[NoParams EXCEPT !.valueFormat = v] : v \in ParamValues}
    /\ next_page_token = None
    /\ response = NoPage
    /\ idx = 0
    /\ yielded = <<>>
    /\ pgError = NoResult
    /\ pageReqs = 0
    /\ ExNone
    /\ RunNone
    /\ CcNone
    /\ NoCancel

\* the consumer calls next() on the generator
ConsumerNext ==
    /\ pgPc \in {"top", "items"}
    /\ ~demand
    /\ demand' = TRUE
    /\ UNCHANGED <<exVars, op, rqVars, opVars, pages, pgPc, params, next_page_token,
                   response, idx, yielded, pgError, pageReqs>>
    /\ UNCHANGED <<runVars, ccVars>>
    /\ UNCHANGED cancelVars

\* a request built from the token alone
WithTokenOnly(p, tok) == [NoParams EXCEPT !.pageToken = tok]

\* params['pageToken'] = next_page_token
WithToken(p, tok) == [p EXCEPT !.pageToken = tok]

\* a generator that runs ahead of its consumer
RunsAhead(d) == TRUE

\* the body of a generator function runs only inside a call of next():
\* d, a next() of the consumer is pending
Running(d) == d

\* the head of the while loop: the token goes into params, get is called
PgFetch ==
    /\ pgPc = "top"
    /\ Running(demand)
    /\ params' = IF Truthy(next_page_token)
                 THEN WithToken(params, next_page_token)
                 ELSE params
    /\ CallStarts("page", DefaultMaxRetries, FALSE)
    /\ pgPc' = "get"
    /\ pageReqs' = IF pageReqs < ReqCap THEN pageReqs + 1 ELSE pageReqs
    /\ UNCHANGED <<exVars, op, opVars, pages, demand, next_page_token, response, idx,
                   yielded, pgError>>
    /\ UNCHANGED <<runVars, ccVars>>
    /\ UNCHANGED cancelVars

\* get returns: response is bound, the for loop starts
PgGetReturns(body) ==
    /\ response' = body
    /\ idx' = 1
    /\ pgPc' = "items"
    /\ UNCHANGED <<pages, demand, params, next_page_token, yielded, pgError,
                   pageReqs>>

\* a generator that swallows the error of a page and fetches again
OnGetErrorGoesOn(e) == [pc |-> "top", demand |-> TRUE]

\* paginate has no try block: an exception of get ends the generator and
\* reaches the consumer's pending next()
OnGetError(e) == [pc |-> "raised", demand |-> FALSE]

\* get raises: the exception leaves the generator
PgGetRaises(e) ==
    /\ pgPc' = OnGetError(e).pc
    /\ demand' = OnGetError(e).demand
    /\ pgError' = Raise(e)
    /\ UNCHANGED <<pages, params, next_page_token, response, idx, yielded,
                   pageReqs>>

\* one attempt of the get in flight and, when it ends the call, what the
\* generator does with the result
PageAttempt ==
    /\ pgPc = "get"
    /\ rqPc = "loop"
    /\ rqCaller = "page"
    /\ \E o \in OpOutcomes :
         LET it == Iteration(o, ServerPage(params.pageToken)) IN
         /\ Observe(o)
         /\ CASE it.pc = "loop" -> Proceed(it) /\ UNCHANGED pgVars
              [] it.pc = "returned" -> CallEnds /\ PgGetReturns(it.result.val)
              [] it.pc = "raised" -> CallEnds /\ PgGetRaises(it.result.val)
    /\ UNCHANGED <<op, exVars>>
    /\ UNCHANGED <<runVars, ccVars>>
    /\ UNCHANGED cancelVars

\* a for loop that walks the items of a page backwards
PageItemsReversed(r) == [i \in 1..Len(r.items) |-> r.items[Len(r.items) + 1 - i]]

\* the items of a page in the order they are yielded
PageItems(r) == r.items

\* yield item
PgYield ==
    /\ pgPc = "items"
    /\ demand
    /\ idx <= Len(PageItems(response))
    /\ yielded' = IF Len(yielded) < LogCap
                  THEN Append(yielded, PageItems(response)[idx])
                  ELSE yielded
    /\ idx' = idx + 1
    /\ demand' = FALSE
    /\ UNCHANGED <<pgError, exVars, op, rqVars, opVars, pages, pgPc, params, next_page_token,
                   response, pageReqs>>
    /\ UNCHANGED <<runVars, ccVars>>
    /\ UNCHANGED cancelVars

\* the loop ends when the response has no next page token
IsLastPage(r) == ~Truthy(r.nextPageToken)

\* the page is exhausted: the token is read, the loop ends or goes on
PgEndOfPage ==
    /\ pgPc = "items"
    /\ demand
    /\ idx > Len(PageItems(response))
    /\ next_page_token' = response.nextPageToken
    /\ IF IsLastPage(response)
       THEN pgPc' = "done" /\ demand' = FALSE
       ELSE pgPc' = "top" /\ UNCHANGED demand
    /\ UNCHANGED <<exVars, op, rqVars, opVars, pages, params, response, idx, yielded, pgError,
                   pageReqs>>
    /\ UNCHANGED <<runVars, ccVars>>
    /\ UNCHANGED cancelVars

NextPaginate ==
    \/ ConsumerNext
    \/ PgFetch
    \/ PageAttempt
    \/ PgYield
    \/ PgEndOfPage

SpecPaginate == InitPaginate /\ [][NextPaginate]_vars

\* the consumer takes every item and every HTTP request comes to an end
SpecPaginateConsumed == SpecPaginate /\ WF_vars(NextPaginate)

-----------------------------------------------------------------------------
(* export_page *)

max_attempts == 40
max_consecutive_failures == 3
max_download_retries == 3
GraceAttempts == 5
PollIntervalMs == 3000
PollErrorWaitMs == 5000

\* "404" in the text of an id or of a server message
Has404(txt) == txt \in {"r404", "code 404"}

\* the ids the server gives the export request (doc_id and page_id, which
\* enter the status endpoint next to it, are taken to be free of "404")
RequestIds == {"r1", "r404"}
Links == {"L1", "L2"}
ErrorTexts == {"boom", "code 404"}

\* the bodies of the submit endpoint: {id, href}
SubmitBodies == {[id |-> r, href |-> r] : r \in RequestIds}

\* the bodies of the status endpoint
StatusBodies ==
    {Status("inProgress", None, None)}
    \cup {Status("complete", l, None) : l \in Links}
    \cup {Status("failed", None, e) : e \in ErrorTexts}

\* the text stored behind a download link
TextAt(url) == <<"text of", url>>

\* the outcomes of requests.get(download_url) followed by raise_for_status
DownloadOutcomes == {"ok", "timeout", "neterr"}

\* the export has just been entered: the submit call is in flight
InitExport ==
    /\ op = "export"
    /\ rqPc = "loop"
    /\ rqCaller = "submit"
    /\ max_retries = DefaultMaxRetries
    /\ ep404 = FALSE
    /\ attempt = 0
    /\ rqResult = NoResult
    /\ nreq = 0 /\ n429 = 0 /\ nRetry3 = 0
    /\ slept = 0 /\ waitBefore = 0
    /\ prev = NoOutcome /\ last = NoOutcome
    /\ seen401 = FALSE /\ reqAfter401 = FALSE
    /\ PgNone
    /\ exPc = "posting"
    /\ request_id = None
    /\ pollIndex = 0
    /\ consecutive_failures = 0
    /\ status_data = NoStatus
    /\ download_url = None
    /\ download_attempt = 0
    /\ exResult = NoResult
    /\ pollWait = 0
    /\ downloadWait = 0
    /\ polls = 0
    /\ downloads = 0
    /\ downloadedFrom = None
    /\ cleanPolls = TRUE
    /\ terminal = "none"
    /\ terminalText = None
    /\ afterTerminal = FALSE
    /\ execFailRun = 0
    /\ gracedRun = 0
    /\ RunNone
    /\ CcNone
    /\ NoCancel

\* post returns: request_id is read, the poll loop is entered
SubmitReturns(body) ==
    /\ request_id' = body.id
    /\ exPc' = "poll_top"
    /\ pollIndex' = 0
    /\ consecutive_failures' = 0
    /\ UNCHANGED <<status_data, download_url, download_attempt, exResult,
                   pollWait, downloadWait, polls, downloads, downloadedFrom,
                   cleanPolls, terminal, terminalText, afterTerminal,
                   execFailRun, gracedRun>>

\* post raises: the exception leaves export_page
SubmitRaises(e) ==
    /\ exPc' = "raised"
    /\ exResult' = Raise(e)
    /\ UNCHANGED <<request_id, pollIndex, consecutive_failures, status_data,
                   download_url, download_attempt, pollWait, downloadWait,
                   polls, downloads, downloadedFrom, cleanPolls, terminal,
                   terminalText, afterTerminal, execFailRun, gracedRun>>

\* one attempt of the submitting post and, when it ends the call, what
\* export_page does with the result
SubmitAttempt ==
    /\ exPc = "posting"
    /\ rqPc = "loop"
    /\ rqCaller = "submit"
    /\ \E o \in OpOutcomes :
         \E b \in PayloadsOf(o, SubmitBodies) :
            LET it == Iteration(o, b) IN
            /\ Observe(o)
            /\ CASE it.pc = "loop" -> Proceed(it) /\ UNCHANGED exVars
                 [] it.pc = "returned" -> CallEnds /\ SubmitReturns(it.result.val)
                 [] it.pc = "raised" -> CallEnds /\ SubmitRaises(it.result.val)
    /\ UNCHANGED <<op, pgVars>>
    /\ UNCHANGED <<runVars, ccVars>>
    /\ UNCHANGED cancelVars

\* the head of an iteration of the poll loop: get(status_endpoint) is called
PollStart ==
    /\ exPc = "poll_top"
    /\ CallStarts("poll", DefaultMaxRetries, Has404(request_id))
    /\ exPc' = "polling"
    /\ polls' = polls + 1
    /\ afterTerminal' = (afterTerminal \/ terminal = "failed")
    /\ UNCHANGED <<op, opVars, pgVars, request_id, pollIndex,
                   consecutive_failures, status_data, download_url,
                   download_attempt, exResult, pollWait, downloadWait,
                   downloads, downloadedFrom, cleanPolls, terminal,
                   terminalText, execFailRun, gracedRun>>
    /\ UNCHANGED <<runVars, ccVars>>
    /\ UNCHANGED cancelVars

PollTimeout == CodaAPIError("poll timeout", 0, "", FALSE, FALSE, 0, None)

\* raise CodaAPIError(f"Page export failed: {error_msg}")
JobFailed(err) ==
    CodaAPIError("job failed", 0, "", FALSE, Has404(err), 0,
                 IF err = None THEN "Unknown error" ELSE err)

\* raise CodaAPIError(f"Too many consecutive failures ({n}) ...: {e}")
TooManyFailures(n, e) ==
    CodaAPIError("too many failures", e.code, e.reason, e.endpoint404,
                 e.detail404, n, e.text)

\* a range that runs one value too far
LoopHasNextInclusive(i) == i + 1 <= max_attempts

\* range(max_attempts) has a value after i
LoopHasNext(i) == i + 1 < max_attempts

\* the end of an iteration: the for loop takes its next value, or its else
\* clause raises the timeout
NextIteration(ms) ==
    /\ pollWait' = ms
    /\ IF LoopHasNext(pollIndex)
       THEN /\ pollIndex' = pollIndex + 1
            /\ exPc' = "poll_top"
            /\ UNCHANGED exResult
       ELSE /\ exPc' = "raised"
            /\ exResult' = Raise(PollTimeout)
            /\ UNCHANGED pollIndex

\* a grace test without the limit on the loop index
InGraceAlways(e, i) == Contains404(e)

\* the grace test of the except clause
InGrace(e, i) == Contains404(e) /\ i < GraceAttempts

\* except CodaAPIError as e, entered with the count already incremented to n
HandlePollError(e, n) ==
    /\ consecutive_failures' = n
    /\ IF InGrace(e, pollIndex)
       THEN NextIteration(PollErrorWaitMs)
       ELSE IF n >= max_consecutive_failures
       THEN /\ exPc' = "raised"
            /\ exResult' = Raise(TooManyFailures(n, e))
            /\ UNCHANGED <<pollIndex, pollWait>>
       ELSE NextIteration(PollErrorWaitMs)

\* the link of the status body read before
DownloadLinkStale(sd) == status_data.downloadLink

\* the link a completed status carries
DownloadLinkOf(sd) == sd.downloadLink

\* a test that takes every terminal status for a finished export
IsTerminalStatus(sd) == sd.status \in {"complete", "failed"}

\* if status_data['status'] == 'complete'
IsComplete(sd) == sd.status = "complete"

\* get returns sd: the try block after the call
PollReturns(sd) ==
    /\ status_data' = sd
    /\ IF terminal = "none" /\ sd.status \in {"complete", "failed"}
       THEN terminal' = sd.status /\ terminalText' = sd.error
       ELSE UNCHANGED <<terminal, terminalText>>
    /\ IF IsComplete(sd)
       THEN /\ download_url' = DownloadLinkOf(sd)
            /\ consecutive_failures' = 0
            /\ exPc' = "download"
            /\ UNCHANGED <<pollIndex, exResult, pollWait>>
       ELSE IF sd.status = "failed"
       THEN /\ HandlePollError(JobFailed(sd.error), 0 + 1)
            /\ UNCHANGED download_url
       ELSE /\ consecutive_failures' = 0
            /\ NextIteration(PollIntervalMs)
            /\ UNCHANGED download_url
    /\ execFailRun' = 0
    /\ gracedRun' = 0
    /\ UNCHANGED <<request_id, download_attempt, downloadWait, polls,
                   downloads, downloadedFrom, cleanPolls, afterTerminal>>

\* the poll was answered 404 while the job may not be queryable yet
IsEarlyNotFound(e, i) == e.code = 404 /\ i < GraceAttempts

\* get raises e: a CodaAPIError enters the except clause, anything else
\* leaves export_page
PollRaises(e) ==
    /\ cleanPolls' = FALSE
    /\ execFailRun' = execFailRun + 1
    /\ gracedRun' = gracedRun + (IF IsEarlyNotFound(e, pollIndex) THEN 1 ELSE 0)
    /\ IF e.exc = "CodaAPIError"
       THEN HandlePollError(e, consecutive_failures + 1)
       ELSE /\ exPc' = "raised"
            /\ exResult' = Raise(e)
            /\ UNCHANGED <<pollIndex, consecutive_failures, pollWait>>
    /\ UNCHANGED <<request_id, status_data, download_url, download_attempt,
                   downloadWait, polls, downloads, downloadedFrom, terminal,
                   terminalText, afterTerminal>>

\* one attempt of the status poll in flight and, when it ends the call, the
\* rest of the iteration of the poll loop
PollAttempt ==
    /\ exPc = "polling"
    /\ rqPc = "loop"
    /\ rqCaller = "poll"
    /\ \E o \in OpOutcomes :
         \E b \in PayloadsOf(o, StatusBodies) :
            LET it == Iteration(o, b) IN
            /\ Observe(o)
            /\ CASE it.pc = "loop" -> Proceed(it) /\ UNCHANGED exVars
                 [] it.pc = "returned" -> CallEnds /\ PollReturns(it.result.val)
                 [] it.pc = "raised" -> CallEnds /\ PollRaises(it.result.val)
    /\ UNCHANGED <<op, pgVars>>
    /\ UNCHANGED <<runVars, ccVars>>
    /\ UNCHANGED cancelVars

DownloadError(o) ==
    CodaAPIError(IF o = "timeout" THEN "download timeout" ELSE "download failed",
                 0, "", FALSE, FALSE, max_download_retries, None)

\* a backoff that starts at two seconds
DownloadBackoffFromOne(a) == Seconds(2 ^ (a + 1))

\* time.sleep(2 ** download_attempt)
DownloadBackoff(a) == Seconds(2 ^ a)

\* a retry test that lets the last attempt retry as well
DownloadHasNextInclusive(a) == a <= max_download_retries - 1

\* if download_attempt < max_download_retries - 1
DownloadHasNext(a) == a < max_download_retries - 1

\* one iteration of the download loop
Download ==
    /\ exPc = "download"
    /\ downloads' = downloads + 1
    /\ downloadedFrom' = download_url
    /\ afterTerminal' = (afterTerminal \/ terminal = "failed")
    /\ \E o \in DownloadOutcomes :
          IF o = "ok"
          THEN /\ exPc' = "done"
               /\ exResult' = Return(TextAt(download_url))
               /\ UNCHANGED <<download_attempt, downloadWait>>
          ELSE IF DownloadHasNext(download_attempt)
          THEN /\ downloadWait' = DownloadBackoff(download_attempt)
               /\ download_attempt' = download_attempt + 1
               /\ UNCHANGED <<exPc, exResult>>
          ELSE /\ exPc' = "raised"
               /\ exResult' = Raise(DownloadError(o))
               /\ UNCHANGED <<download_attempt, downloadWait>>
    /\ UNCHANGED <<op, rqVars, opVars, pgVars, request_id, pollIndex,
                   consecutive_failures, status_data, download_url, pollWait,
                   polls, cleanPolls, terminal, terminalText, execFailRun,
                   gracedRun>>
    /\ UNCHANGED <<runVars, ccVars>>
    /\ UNCHANGED cancelVars

NextExport ==
    \/ SubmitAttempt
    \/ PollStart
    \/ PollAttempt
    \/ Download

SpecExport == InitExport /\ [][NextExport]_vars

-----------------------------------------------------------------------------
(* A single call of _make_request (get and post are such calls) *)

PlainBodies == {"body1", "body2"}

InitRequest ==
    /\ op = "request"
    /\ rqPc = "loop"
    /\ rqCaller = "plain"
    /\ max_retries \in 0..MaxRetriesBound
    /\ ep404 \in BOOLEAN
    /\ attempt = 0
    /\ rqResult = NoResult
    /\ nreq = 0 /\ n429 = 0 /\ nRetry3 = 0
    /\ slept = 0 /\ waitBefore = 0
    /\ prev = NoOutcome /\ last = NoOutcome
    /\ seen401 = FALSE /\ reqAfter401 = FALSE
    /\ PgNone
    /\ ExNone
    /\ RunNone
    /\ CcNone
    /\ NoCancel

PlainAttempt ==
    /\ rqCaller = "plain"
    /\ rqPc = "loop"
    /\ \E o \in HttpOutcomes :
         \E b \in PayloadsOf(o, PlainBodies) :
            Proceed(Iteration(o, b)) /\ Observe(o)
    /\ UNCHANGED <<op, pgVars, exVars>>
    /\ UNCHANGED <<runVars, ccVars>>
    /\ reqAfterCancel' = (reqAfterCancel \/ cancelled)
    /\ UNCHANGED cancelled

NextRequest == PlainAttempt

SpecRequest == InitRequest /\ [][NextRequest]_vars

\* The caller of a call that is between two attempts (in the backoff sleep
\* or the rate-limit wait that precedes the next request) wants it to stop.
\* _make_request takes no cancellation parameter and sleeps in time.sleep:
\* nothing of the call's state changes.
CallerCancels ==
    /\ rqCaller = "plain"
    /\ rqPc = "loop"
    /\ nreq >= 1
    /\ ~cancelled
    /\ cancelled' = TRUE
    /\ UNCHANGED <<op, rqVars, opVars, pgVars, exVars, runVars, ccVars,
                   reqAfterCancel>>

NextRequestCancel ==
    \/ PlainAttempt
    \/ CallerCancels

SpecRequestCancel == InitRequest /\ [][NextRequestCancel]_vars

-----------------------------------------------------------------------------
(* CodaExporter.run_export: every call of the API either returns or raises  *)
(* CodaAPIError; what the exporter does with each                           *)

MaxDocs == 2        \* documents in the workspace
MaxListed == 2      \* items a listing of tables, columns or pages delivers

\* how a call of the API ends
ApiOutcomes == {"ok", "CodaAPIError"}

\* what next() on a paginate generator does: an item, the end, or the error
\* of a page fetch
ListingSteps == {"item", "end", "CodaAPIError"}

\* item.get("type", "table") of the items of list_tables (None: no such key)
ItemTypes == {"table", "view", None}
ContentTypes == {"canvas", "embed"}
export_formats == <<"markdown", "html">>

\* raise Exception("STOPPING ON FIRST ERROR: ...") from e
Stopping == [exc |-> "Exception", why |-> "STOPPING ON FIRST ERROR"]

RunState ==
    [pc |-> runPc, result |-> runResult, docs_list |-> docs_list,
     docIdx |-> docIdx, listed |-> listed, columnsLeft |-> columnsLeft,
     formatIdx |-> formatIdx, content_type |-> content_type,
     failedCalls |-> failedCalls]

SetRun(r) ==
    /\ runPc' = r.pc
    /\ runResult' = r.result
    /\ docs_list' = r.docs_list
    /\ docIdx' = r.docIdx
    /\ listed' = r.listed
    /\ columnsLeft' = r.columnsLeft
    /\ formatIdx' = r.formatIdx
    /\ content_type' = r.content_type
    /\ failedCalls' = r.failedCalls
    /\ UNCHANGED <<op, rqVars, opVars, pgVars, exVars, ccVars, cancelVars>>

\* the call `call` has raised CodaAPIError
Failed(r, call) == [r EXCEPT !.failedCalls = @ \cup {call}]

\* except Exception as e: print(...) in _export_tables_and_views: the
\* method returns and export_document goes on with the pages
TablesErrorHandled(r) == [r EXCEPT !.pc = "pages", !.listed = 0]

\* run_export has called setup_export_directory and calls verify_connection
InitRunExport ==
    /\ op = "run_export"
    /\ RqIdle
    /\ seen401 = FALSE /\ reqAfter401 = FALSE
    /\ PgNone
    /\ ExNone
    /\ CcNone
    /\ runPc = "verify"
    /\ runResult = NoResult
    /\ docs_list = <<>>
    /\ docIdx = 0
    /\ listed = 0
    /\ columnsLeft = 0
    /\ formatIdx = 0
    /\ content_type = None
    /\ failedCalls = {}
    /\ NoCancel

\* verify_connection: whoami, and `return False` when it fails
VerifyConnection ==
    /\ runPc = "verify"
    /\ \E o \in ApiOutcomes :
         IF o = "ok"
         THEN SetRun([RunState EXCEPT !.pc = "docs"])
         ELSE SetRun(Failed([RunState EXCEPT !.pc = "returned",
                                             !.result = Return(FALSE)], "whoami"))

\* export_workspace_structure, one step of its loop over list_docs, and the
\* test of docs_list in run_export
ExportWorkspaceStructure ==
    /\ runPc = "docs"
    /\ \E st \in ListingSteps :
         CASE st = "item" ->
                /\ Len(docs_list) < MaxDocs
                /\ SetRun([RunState EXCEPT !.docs_list = Append(@, Len(@) + 1)])
           [] st = "end" ->
                IF docs_list = <<>>
                THEN SetRun([RunState EXCEPT !.pc = "returned",
                                             !.result = Return(FALSE)])
                ELSE SetRun([RunState EXCEPT !.pc = "get_doc", !.docIdx = 1])
           [] st = "CodaAPIError" ->
                SetRun(Failed([RunState EXCEPT !.pc = "returned",
                                               !.docs_list = <<>>,
                                               !.result = Return(FALSE)],
                              "list_docs"))

\* export_document: get_doc
ExportDocument ==
    /\ runPc = "get_doc"
    /\ \E o \in ApiOutcomes :
         IF o = "ok"
         THEN SetRun([RunState EXCEPT !.pc = "tables", !.listed = 0])
         ELSE SetRun(Failed([RunState EXCEPT !.pc = "raised",
                                             !.result = Raise(Stopping)],
                            "get_doc"))

\* _export_tables_and_views: one step of its loop over list_tables
ExportTablesAndViews ==
    /\ runPc = "tables"
    /\ \E st \in ListingSteps :
         CASE st = "item" ->
                /\ listed < MaxListed
                /\ \E t \in ItemTypes :
                     SetRun([RunState EXCEPT
                               !.listed = @ + 1,
                               !.pc = IF t = "view" THEN "view"
                                      ELSE IF t = "table" THEN "table_meta"
                                      ELSE "columns"])
           [] st = "end" -> SetRun([RunState EXCEPT !.pc = "pages", !.listed = 0])
           [] st = "CodaAPIError" ->
                SetRun(Failed(TablesErrorHandled(RunState), "list_tables"))

\* _export_table: get_table, whose failure is logged as a warning
ExportTableMeta ==
    /\ runPc = "table_meta"
    /\ \E o \in ApiOutcomes :
         IF o = "ok"
         THEN SetRun([RunState EXCEPT !.pc = "columns"])
         ELSE SetRun(Failed([RunState EXCEPT !.pc = "columns"], "get_table"))

\* _export_table: list(list_columns(...)); its failure ends _export_table in
\* the except clause that prints the error
ExportTableColumns ==
    /\ runPc = "columns"
    /\ \E o \in ApiOutcomes :
         IF o = "ok"
         THEN \E n \in 0..MaxListed :
                SetRun([RunState EXCEPT !.columnsLeft = n,
                                        !.pc = IF n = 0 THEN "rows" ELSE "column"])
         ELSE SetRun(Failed([RunState EXCEPT !.pc = "tables"], "list_columns"))

\* _export_table: get_column of one column, with the fall back to the basic
\* column when it fails
ExportColumn ==
    /\ runPc = "column"
    /\ \E o \in ApiOutcomes :
         LET r == [RunState EXCEPT !.columnsLeft = @ - 1,
                                   !.pc = IF columnsLeft = 1 THEN "rows" ELSE "column"]
         IN IF o = "ok" THEN SetRun(r) ELSE SetRun(Failed(r, "get_column"))

\* _export_table: list(list_rows(...)), the last call of _export_table
ExportRows ==
    /\ runPc = "rows"
    /\ \E o \in ApiOutcomes :
         IF o = "ok"
         THEN SetRun([RunState EXCEPT !.pc = "tables"])
         ELSE SetRun(Failed([RunState EXCEPT !.pc = "tables"], "list_rows"))

\* _export_view: get_table of the view
ExportView ==
    /\ runPc = "view"
    /\ \E o \in ApiOutcomes :
         IF o = "ok"
         THEN SetRun([RunState EXCEPT !.pc = "tables"])
         ELSE SetRun(Failed([RunState EXCEPT !.pc = "tables"], "get_table of view"))

\* the end of export_document, and run_export's loop over docs_list: the
\* next document, or create_archive and `return True`
DocumentDone(r) ==
    IF docIdx < Len(docs_list)
    THEN [r EXCEPT !.pc = "get_doc", !.docIdx = @ + 1, !.listed = 0]
    ELSE [r EXCEPT !.pc = "returned", !.result = Return(TRUE), !.listed = 0]

\* _export_pages: one step of its loop over list_pages
ExportPages ==
    /\ runPc = "pages"
    /\ \E st \in ListingSteps :
         CASE st = "item" ->
                /\ listed < MaxListed
                /\ \E ct \in ContentTypes :
                     SetRun([RunState EXCEPT !.listed = @ + 1,
                                             !.content_type = ct,
                                             !.formatIdx = 1,
                                             !.pc = "page_format"])
           [] st = "end" -> SetRun(DocumentDone(RunState))
           [] st = "CodaAPIError" ->
                SetRun(Failed([RunState EXCEPT !.pc = "raised",
                                               !.result = Raise(Stopping)],
                              "list_pages"))

\* the loop over export_formats goes on, or the page is done
NextFormat(r) ==
    IF formatIdx < Len(export_formats)
    THEN [r EXCEPT !.formatIdx = @ + 1]
    ELSE [r EXCEPT !.formatIdx = 0, !.pc = "pages"]

\* _export_pages: one format of one page; only canvas pages are exported
ExportPageFormat ==
    /\ runPc = "page_format"
    /\ IF content_type # "canvas"
       THEN SetRun(NextFormat(RunState))
       ELSE \E o \in ApiOutcomes :
              IF o = "ok"
              THEN SetRun(NextFormat(RunState))
              ELSE SetRun(Failed([RunState EXCEPT !.pc = "raised",
                                                  !.result = Raise(Stopping)],
                                 "export_page"))

NextRunExport ==
    \/ VerifyConnection
    \/ ExportWorkspaceStructure
    \/ ExportDocument
    \/ ExportTablesAndViews
    \/ ExportTableMeta
    \/ ExportTableColumns
    \/ ExportColumn
    \/ ExportRows
    \/ ExportView
    \/ ExportPages
    \/ ExportPageFormat

SpecRunExport == InitRunExport /\ [][NextRunExport]_vars

-----------------------------------------------------------------------------
(* Two paginate generators on one CodaAPI instance, their steps interleaved *)
(* in every order.  The server is a function of the request: it answers a   *)
(* page request by the page the token names, or by 403 for page failAt.     *)

Procs == {"g1", "g2"}
DictIds == {"d1", "d2"}

\* CodaAPI.__init__
Instance ==
    [api_token |-> "token", base_url |-> "https://coda.io/apis/v1",
     headers |-> "Bearer token"]

\* the listings of two pages that end
EndingListings ==
    {l \in ListingsOf(2) : /\ l[1].items = <<"b", "a">>
                           /\ l[2].items = <<"a">>
                           /\ IsLastPage(l[2])}

\* the request self.get(endpoint, params) sends for the mapping d
Request(d) ==
    [pageToken |-> d.pageToken, valueFormat |-> d.valueFormat,
     authorization |-> self.headers]

\* the page a request asks for
RequestedPage(req) == IF req.pageToken = None THEN 1 ELSE PageOf(req.pageToken)

Forbidden == CodaAPIError("http", 403, Reason(403), FALSE, FALSE, 0, None)

\* the locals of a generator whose body has not started; d is the params
\* mapping it was called with
Frame(d) ==
    [pc |-> "top", params |-> d, next_page_token |-> None, response |-> NoPage,
     idx |-> 0, sent |-> <<>>, yielded |-> <<>>, error |-> NoResult]

InitConcurrent ==
    /\ op = "concurrent"
    /\ RqIdle
    /\ seen401 = FALSE /\ reqAfter401 = FALSE
    /\ PgNone
    /\ ExNone
    /\ RunNone
    /\ self = Instance
    /\ \E d \in DictIds : frames = [p \in Procs |-> IF p = "g1" THEN Frame("d1") ELSE Frame(d)]
    /\ heap \in [DictIds -> {[NoParams EXCEPT !.valueFormat = v] : v \in ParamValues}]
    /\ listing \in EndingListings
    /\ failAt \in 0..2
    /\ NoCancel

CcRest ==
    UNCHANGED <<op, rqVars, opVars, pgVars, exVars, runVars, self, listing, failAt,
                cancelVars>>

\* the head of the while loop: the token goes into the params mapping
GenWriteToken(p) ==
    LET f == frames[p] IN
    /\ f.pc = "top"
    /\ heap' = IF Truthy(f.next_page_token)
               THEN [heap EXCEPT ![f.params] = WithToken(@, f.next_page_token)]
               ELSE heap
    /\ frames' = [frames EXCEPT ![p].pc = "call"]
    /\ CcRest

\* response = self.get(endpoint, params): the request is built from the
\* mapping as it is now
GenGet(p) ==
    LET f == frames[p]
        req == Request(heap[f.params])
        k == RequestedPage(req)
    IN
    /\ f.pc = "call"
    /\ frames' = IF k = failAt
                 THEN [frames EXCEPT ![p].sent = Append(@, req),
                                     ![p].pc = OnGetError(Forbidden).pc,
                                     ![p].error = Raise(Forbidden)]
                 ELSE [frames EXCEPT ![p].sent = Append(@, req),
                                     ![p].response = listing[k],
                                     ![p].idx = 1,
                                     ![p].pc = "items"]
    /\ UNCHANGED heap
    /\ CcRest

\* yield item
GenYield(p) ==
    LET f == frames[p] IN
    /\ f.pc = "items"
    /\ f.idx <= Len(PageItems(f.response))
    /\ frames' = [frames EXCEPT ![p].yielded = Append(@, PageItems(f.response)[f.idx]),
                                ![p].idx = @ + 1]
    /\ UNCHANGED heap
    /\ CcRest

\* the page is exhausted: the token is read, the loop ends or goes on
GenEndOfPage(p) ==
    LET f == frames[p] IN
    /\ f.pc = "items"
    /\ f.idx > Len(PageItems(f.response))
    /\ frames' = [frames EXCEPT ![p].next_page_token = f.response.nextPageToken,
                                ![p].pc = IF IsLastPage(f.response) THEN "done" ELSE "top"]
    /\ UNCHANGED heap
    /\ CcRest

NextConcurrent ==
    \E p \in Procs :
        \/ GenWriteToken(p)
        \/ GenGet(p)
        \/ GenYield(p)
        \/ GenEndOfPage(p)

SpecConcurrent == InitConcurrent /\ [][NextConcurrent]_vars

-----------------------------------------------------------------------------
(* Properties of _make_request *)

\* every failed attempt of the call so far was a 5xx, a timeout or a
\* connection error
OnlyRetry3Failures == nRetry3 = nreq - (IF IsOk(last) THEN 1 ELSE 0)

\* C2: after a 429 with Retry-After: d the wait until the next HTTP request
\* is exactly d seconds (60 without the header), whatever the backoff schedule.
C2_WaitAfter429IsRetryAfter ==
    (nreq >= 2 /\ prev.code = 429)
        => waitBefore = Seconds(RetryAfter(prev.retry_after))

\* C3: a 429 retries the same attempt: the attempt index counts only the
\* requests not answered 429, and the call gives up for lack of attempts only
\* after max_retries + 1 requests that were not answered 429.
C3_RateLimitKeepsAttempt ==
    /\ rqPc = "loop" => attempt = nreq - n429
    /\ (rqPc = "raised" /\ rqResult.val.why \in {"timeout", "conn", "neterr", "unexpected"})
           => nreq - n429 = max_retries + 1

\* C4: while the attempts fail with 5xx, timeouts or connection errors the
\* call goes on up to attempt max_retries + 1, the wait before the k-th retry
\* is 2^k seconds, and a success at attempt max_retries + 1 returns its body
\* after exactly max_retries + 1 requests.
C4_BackoffSchedule ==
    OnlyRetry3Failures =>
        /\ (~IsOk(last) /\ nreq <= max_retries) => rqPc = "loop"
        /\ nreq >= 2 => waitBefore = Seconds(2 ^ (nreq - 1))
        /\ (IsOk(last) /\ nRetry3 = max_retries) =>
               /\ rqPc = "returned"
               /\ nreq = max_retries + 1
               /\ rqResult.tag = "return"
               /\ rqResult.val \in {Body(last, b) : b \in PlainBodies}

C4_Witness ==
    /\ rqPc = "returned"
    /\ max_retries >= 3
    /\ nRetry3 = max_retries
    /\ nreq = max_retries + 1
    /\ waitBefore = Seconds(8)
    /\ prev.kind = "timeout"

IsFatal4xx(o) == o.kind = "response" /\ o.code >= 400 /\ o.code < 500 /\ o.code # 429

\* C6: a 4xx response other than 429 ends the call at once with a
\* CodaAPIError for that status (no further request, no sleep), at every
\* attempt index; for 401, 403 and 404 the error names the reason.
C6_Fatal4xxRaisesAtOnce ==
    IsFatal4xx(last) =>
        /\ rqPc = "raised"
        /\ rqResult.tag = "raise"
        /\ rqResult.val.exc = "CodaAPIError"
        /\ rqResult.val.code = last.code
        /\ slept = 0
        /\ last.code = 401 => rqResult.val.reason = "Invalid API token"
        /\ last.code = 403 => rqResult.val.reason = "Access forbidden (check permissions)"
        /\ last.code = 404 => rqResult.val.reason = "Resource not found"

C6_Witness ==
    /\ IsFatal4xx(last)
    /\ last.code = 404
    /\ rqPc = "raised"
    /\ attempt >= 1
    /\ attempt < max_retries

\* C15: when all max_retries + 1 attempts of a call ended in retryable
\* failures (429, 5xx, timeout, connection error), the call has raised a
\* CodaAPIError that carries the cause of the last failure and the number of
\* attempts made.
C15_ExhaustionReportsCauseAndCount ==
    (rqPc = "raised" /\ nreq = max_retries + 1 /\ nreq = n429 + nRetry3) =>
        /\ rqResult.tag = "raise"
        /\ rqResult.val.exc = "CodaAPIError"
        /\ rqResult.val.attempts = nreq
        /\ IF last.kind = "response"
           THEN rqResult.val.code = last.code
           ELSE rqResult.val.why = last.kind

\* C22: the raise that follows the attempt loop is never reached: a call
\* that has raised did so from inside the loop.
C22_FinalRaiseUnreachable ==
    rqPc = "raised" =>
        ~(rqResult.val.exc = "CodaAPIError" /\ rqResult.val.why = "unexpected")

\* C24: a call issues at most max_retries + 1 HTTP requests, at least one
\* when it has ended, and it ends by returning a body or by raising
\* CodaAPIError.
C24_RequestCountAndOutcome ==
    /\ nreq <= max_retries + 1
    /\ rqPc \in {"returned", "raised"} => nreq >= 1
    /\ rqPc = "returned" => rqResult.tag = "return"
    /\ rqPc = "raised" =>
          (rqResult.tag = "raise" /\ rqResult.val.exc = "CodaAPIError")

\* C21: once the caller has asked to cancel during a wait, the call issues
\* no further HTTP request.
C21_CancelStopsRequests == ~reqAfterCancel

-----------------------------------------------------------------------------
(* Properties of paginate *)

\* items(P_k) ++ ... ++ items(P_m) of the server's listing
RECURSIVE ItemsFrom(_)
ItemsFrom(k) == IF k > Len(pages) THEN <<>> ELSE pages[k].items \o ItemsFrom(k + 1)

IsPrefix(s, t) == Len(s) <= Len(t) /\ \A i \in 1..Len(s) : s[i] = t[i]

\* the listing ends: its last page carries no token (or an empty one)
FiniteListing == ~Truthy(pages[Len(pages)].nextPageToken)

\* C7: on a listing P1..Pm whose last page alone carries no token, the items
\* delivered are at every moment a prefix of items(P1) ++ ... ++ items(Pm),
\* and when the generator ends they are all of it, after exactly m page
\* requests.
C7_YieldsPagesInOrder ==
    (op = "paginate" /\ FiniteListing) =>
        /\ IsPrefix(yielded, ItemsFrom(1))
        /\ pageReqs <= Len(pages)
        /\ pgPc = "done" => (yielded = ItemsFrom(1) /\ pageReqs = Len(pages))

C7_Witness ==
    /\ op = "paginate"
    /\ pgPc = "done"
    /\ Len(pages) = 2
    /\ pages[1].nextPageToken = "t2"
    /\ pages[2].nextPageToken = None
    /\ yielded = <<"b", "a", "a", "a">>
    /\ pageReqs = 2

\* items(P_1) ++ ... ++ items(P_(k-1)) of the server's listing
RECURSIVE ItemsBefore(_)
ItemsBefore(k) == IF k <= 1 THEN <<>> ELSE ItemsBefore(k - 1) \o pages[k - 1].items

\* C16: an error of the fetch of page k ends the generator with that
\* CodaAPIError in the consumer's pending next(); nothing can happen after
\* it (no further page request), and the items delivered are exactly those
\* of pages 1..k-1.
C16_PageErrorPropagates ==
    op = "paginate" =>
        /\ pgError.tag = "raise" <=> pgPc = "raised"
        /\ pgPc = "raised" =>
              /\ pgError.val.exc = "CodaAPIError"
              /\ ~demand
              /\ rqPc = "idle"
              /\ ~ENABLED NextPaginate
              /\ pageReqs <= Len(pages) => yielded = ItemsBefore(pageReqs)

C16_Witness ==
    /\ op = "paginate"
    /\ pgPc = "raised"
    /\ pgError.val.why = "timeout"
    /\ Len(pages) = 2
    /\ pageReqs = 2
    /\ yielded = <<"b", "a">>

\* C17: every page request after the first is made with pageToken equal to
\* the nextPageToken of the response before it, a non-empty string, and no
\* step of the generator changes the other query parameter.
C17_TokenRoundTrip ==
    /\ []((op = "paginate" /\ pgPc = "get" /\ pageReqs >= 2) =>
             /\ params.pageToken = response.nextPageToken
             /\ params.pageToken = next_page_token
             /\ Truthy(params.pageToken))
    /\ [][params'.valueFormat = params.valueFormat]_vars

C17_Witness ==
    /\ op = "paginate"
    /\ pgPc = "get"
    /\ pageReqs = 2
    /\ params = [pageToken |-> "t2", valueFormat |-> "rich"]
    /\ response.nextPageToken = "t2"
    /\ yielded = <<"a">>

\* the calls of next() the consumer has made: one for each item delivered,
\* the pending one, and the one that ended the generator
Asked ==
    Len(yielded) + (IF demand THEN 1 ELSE 0)
                 + (IF pgPc \in {"done", "raised"} THEN 1 ELSE 0)

\* C26: no page is requested before the consumer has asked for an item;
\* page k is requested only when every item of pages 1..k-1 was delivered
\* and the consumer has asked for one more; and when the consumer holds j
\* items and has not asked again, the last page requested is the page of
\* item j.
C26_LazyPageByPage ==
    (op = "paginate" /\ pageReqs <= Len(pages)) =>
        /\ Asked = 0 => pageReqs = 0
        /\ pageReqs >= 1 =>
              /\ Len(yielded) >= Len(ItemsBefore(pageReqs))
              /\ Asked > Len(ItemsBefore(pageReqs))
        /\ (pgPc = "items" /\ ~demand) =>
              /\ Len(yielded) >= 1
              /\ Len(ItemsBefore(pageReqs)) < Len(yielded)
              /\ Len(yielded) <= Len(ItemsBefore(pageReqs + 1))

C26_Witness ==
    /\ op = "paginate"
    /\ pgPc = "items"
    /\ ~demand
    /\ Len(pages) = 2
    /\ pages[1].nextPageToken = "t2"
    /\ yielded = <<"b", "a">>
    /\ idx = 3
    /\ pageReqs = 1

\* C8: a fully consumed paginate sequence comes to an end, also when the
\* server never sends a response without a next page token.
C8_PaginateTerminates == <>(pgPc \in {"done", "raised"})

-----------------------------------------------------------------------------
(* Properties of export_page *)

\* C1: once a status poll has returned 'failed', export_page has ended with
\* the job-failed error that carries the server's error text, and no status
\* poll and no download was started after that poll.
C1_FailedEndsExport ==
    terminal = "failed" =>
        /\ exPc = "raised"
        /\ exResult = Raise(JobFailed(terminalText))
        /\ ~afterTerminal

\* C5: after a 401 the operation issues no further HTTP request (a plain
\* call, a page fetch of paginate, the submit or a status poll of export_page).
C5_NoRequestAfter401 == ~reqAfter401

\* C9: when every poll returned, all of them non-terminal but the last, which
\* reported 'complete' (at the 40th poll at the latest), polling has stopped
\* with that poll, every download request goes to the downloadLink of that
\* last response, and the text returned is the text downloaded from it.
C9_CompleteDownloadsFinalLink ==
    (cleanPolls /\ terminal = "complete") =>
        /\ exPc \in {"download", "done", "raised"}
        /\ polls = pollIndex + 1
        /\ polls <= 40
        /\ status_data.status = "complete"
        /\ download_url = status_data.downloadLink
        /\ downloads > 0 => downloadedFrom = status_data.downloadLink
        /\ exPc = "done" => exResult = Return(TextAt(status_data.downloadLink))
        /\ exPc = "raised" =>
              /\ exResult.val.why \in {"download timeout", "download failed"}
              /\ downloads = 3

C9_Witness ==
    /\ cleanPolls
    /\ terminal = "complete"
    /\ exPc = "done"
    /\ polls = 40
    /\ status_data.downloadLink = "L2"
    /\ exResult = Return(TextAt("L2"))

\* C10: while every status poll returns a non-terminal status, export_page
\* goes on polling up to the 40th poll, then raises the poll timeout; it makes
\* no download request.
C10_PollTimeoutAfter40 ==
    (polls >= 1 /\ cleanPolls /\ terminal = "none") =>
        /\ downloads = 0
        /\ \/ exPc \in {"poll_top", "polling"} /\ polls <= 40
           \/ exPc = "raised" /\ exResult = Raise(PollTimeout) /\ polls = 40

C10_Witness ==
    /\ cleanPolls
    /\ terminal = "none"
    /\ exPc = "raised"
    /\ exResult = Raise(PollTimeout)
    /\ polls = 40
    /\ status_data.status = "inProgress"

\* C11: the abort for too many consecutive failures needs 3 failed polls in a
\* row that were not early 404s: the 404s answered during the first 5 polls
\* do not count towards the cap of 3 (runs in which no poll reported 'failed').
C11_Graced404NotCounted ==
    (exPc = "raised" /\ exResult.val.why = "too many failures"
                    /\ terminal # "failed")
        => execFailRun - gracedRun >= max_consecutive_failures

\* C12: a poll that returns a status leaves the failure counter at zero, and
\* the abort for too many consecutive failures happens only when the 3 most
\* recent polls all raised in _make_request.
C12_TooManyOnlyAfter3ExecutorFailures ==
    /\ (execFailRun = 0 /\ exPc # "polling") => consecutive_failures = 0
    /\ (exPc = "raised" /\ exResult.val.why = "too many failures")
          => execFailRun >= max_consecutive_failures

\* C13: a terminal status is final: after a poll reported 'failed' the call
\* neither returns content nor raises the poll timeout, and after a poll
\* reported 'complete' no status poll is made.
C13_TerminalIsFinal ==
    /\ terminal = "failed" =>
          /\ exPc # "done"
          /\ ~(exPc = "raised" /\ exResult = Raise(PollTimeout))
    /\ terminal = "complete" => exPc \in {"download", "done", "raised"}

\* C14: the download has a budget of its own, 3 attempts made outside
\* _make_request: a failed attempt 1 or 2 is followed by a wait of 1 s or 2 s
\* and another attempt, a successful attempt returns its text at once, and
\* the failure of the 3rd attempt raises the download error.
C14_DownloadBudget ==
    /\ downloads <= 3
    /\ exPc = "download" =>
          /\ RqIdle
          /\ downloads = download_attempt
          /\ downloads = 1 => downloadWait = Seconds(1)
          /\ downloads = 2 => downloadWait = Seconds(2)
    /\ exPc = "done" =>
          /\ downloads = download_attempt + 1
          /\ exResult = Return(TextAt(download_url))
    /\ (exPc = "raised" /\ downloads > 0) =>
          /\ downloads = 3
          /\ exResult.tag = "raise"
          /\ exResult.val.exc = "CodaAPIError"
          /\ exResult.val.why \in {"download timeout", "download failed"}

C14_Witness ==
    /\ exPc = "raised"
    /\ downloads = 3
    /\ download_attempt = 2
    /\ downloadWait = Seconds(2)
    /\ exResult.val.why = "download timeout"
    /\ consecutive_failures = 0

\* the steps one iteration of the poll loop can take: the call of get and
\* the max_retries + 1 attempts of that call
PollCost == DefaultMaxRetries + 2

\* an upper bound of the steps export_page can still take
Budget ==
    CASE exPc = "posting" ->
             (DefaultMaxRetries + 1 - attempt) + max_attempts * PollCost
                 + max_download_retries
      [] exPc = "poll_top" ->
             (max_attempts - pollIndex) * PollCost + max_download_retries
      [] exPc = "polling" ->
             (max_attempts - pollIndex) * PollCost - 1 - attempt
                 + max_download_retries
      [] exPc = "download" -> max_download_retries - download_attempt
      [] OTHER -> 0

\* C18: export_page terminates: while it has not returned or raised a step
\* is possible (the HTTP request in flight returns or times out), every step
\* lowers a budget that is never negative, and the call makes one submit
\* call (none is started after the first), at most 40 status polls
\* (returned, failed and graced ones alike) and at most 3 download requests.
C18_ExportTerminatesWithinBudget ==
    /\ [](/\ polls <= max_attempts
          /\ downloads <= max_download_retries
          /\ Budget >= 0
          /\ exPc \notin {"done", "raised"} => ENABLED NextExport
          /\ exPc \in {"done", "raised"} => (Budget = 0 /\ ~ENABLED NextExport))
    /\ [][Budget' < Budget]_vars
    /\ [][rqCaller' = "submit" => (rqCaller = "submit" /\ polls = 0)]_vars

C18_Witness ==
    /\ exPc = "raised"
    /\ polls = max_attempts
    /\ downloads = max_download_retries
    /\ ~cleanPolls
    /\ terminal = "complete"
    /\ exResult.val.why = "download failed"

\* C19: run_export returns True only when no call of the API made during
\* the run ended in a CodaAPIError.
C19_NoErrorSwallowed ==
    (runPc = "returned" /\ runResult = Return(TRUE)) => failedCalls = {}

-----------------------------------------------------------------------------
(* Properties of concurrent use *)

\* what a generator does when it runs alone from the request for token tok,
\* called with the mapping d
RECURSIVE SoloFrom(_, _)
SoloFrom(tok, d) ==
    LET dd == IF Truthy(tok) THEN WithToken(d, tok) ELSE d
        req == Request(dd)
        k == RequestedPage(req)
    IN IF k = failAt
       THEN [sent |-> <<req>>, yielded |-> <<>>, pc |-> "raised"]
       ELSE IF IsLastPage(listing[k])
       THEN [sent |-> <<req>>, yielded |-> PageItems(listing[k]), pc |-> "done"]
       ELSE LET rest == SoloFrom(listing[k].nextPageToken, dd)
            IN [sent |-> <<req>> \o rest.sent,
                yielded |-> PageItems(listing[k]) \o rest.yielded,
                pc |-> rest.pc]

\* the run of generator p alone: its mapping as the caller made it
Solo(p) == SoloFrom(None, [heap[frames[p].params] EXCEPT !.pageToken = None])

AsWhenAlone(p) ==
    /\ IsPrefix(frames[p].sent, Solo(p).sent)
    /\ IsPrefix(frames[p].yielded, Solo(p).yielded)
    /\ frames[p].pc \in {"done", "raised"} =>
          /\ frames[p].sent = Solo(p).sent
          /\ frames[p].yielded = Solo(p).yielded
          /\ frames[p].pc = Solo(p).pc

\* C20: under every interleaving each generator sends the requests and
\* reaches the outcome of its run alone against the same server.
C20_ConcurrentAsAlone ==
    op = "concurrent" => \A p \in Procs : AsWhenAlone(p)

\* C28: paginate leaves the caller's params mapping as it was (the callers
\* here pass mappings without pageToken), and the first request of every
\* generator carries no pageToken, also when its mapping was passed to
\* another generator that has already run to its end.
C28_ParamsLeftUnchanged ==
    op = "concurrent" =>
        /\ \A d \in DictIds : heap[d].pageToken = None
        /\ \A p \in Procs :
              frames[p].sent # <<>> => frames[p].sent[1].pageToken = None

\* The case of C28 after a consumed sequence: g1 ran to its end on the
\* mapping that g2 is then started with.
SecondSequenceStartsAfresh ==
    (/\ op = "concurrent"
     /\ frames["g1"].pc = "done"
     /\ frames["g2"].params = frames["g1"].params
     /\ Len(frames["g2"].sent) = 1
     /\ Len(frames["g1"].sent) = 2)
        => frames["g2"].sent[1].pageToken = None

\* The part of C20 that holds of the code: no attribute of the instance is
\* written, and generators called with different params mappings do as when
\* alone.
ConcurrentAsAloneOnOwnParams ==
    op = "concurrent" =>
        /\ self = Instance
        /\ frames["g1"].params # frames["g2"].params => \A p \in Procs : AsWhenAlone(p)

\* C23: the grace ends with poll index 4.  The index counts every poll made
\* so far; a poll that fails at index 5 or later is counted against the cap
\* (the loop goes on only with fewer than 3 consecutive failures); so no more
\* than 6 polls in a row fail, and a status endpoint that fails every poll
\* (always 404, say) has the call aborted by the 6th poll.
C23_GraceOnlyEarly ==
    /\ exPc = "polling" => pollIndex = polls - 1
    /\ (exPc = "poll_top" /\ pollIndex > GraceAttempts)
          => consecutive_failures < max_consecutive_failures
    /\ execFailRun <= GraceAttempts + 1
    /\ execFailRun = GraceAttempts + 1 =>
          /\ exPc = "raised"
          /\ exResult.val.why = "too many failures"
          /\ polls = GraceAttempts + 1

C23_Witness ==
    /\ exPc = "raised"
    /\ request_id = "r1"
    /\ polls = GraceAttempts + 1
    /\ gracedRun = GraceAttempts
    /\ execFailRun = GraceAttempts + 1
    /\ exResult.val.why = "too many failures"
    /\ exResult.val.code = 404

\* C25: a download request is made only after a status poll returned
\* 'complete', and it goes to the downloadLink of that response; a call that
\* is submitting or polling, or that ended with an error of the submit or
\* of the poll loop, has made no download request.
C25_DownloadOnlyAfterComplete ==
    op = "export" =>
        /\ (exPc = "download" \/ downloads > 0) =>
              /\ status_data.status = "complete"
              /\ download_url = status_data.downloadLink
              /\ download_url \in Links
        /\ downloads > 0 => downloadedFrom = status_data.downloadLink
        /\ exPc \in {"posting", "poll_top", "polling"} => downloads = 0
        /\ (exPc = "raised"
               /\ exResult.val.why \notin {"download timeout", "download failed"})
              => downloads = 0
        /\ exPc = "done" => downloads > 0

C25_Witness ==
    /\ exPc = "done"
    /\ downloads = 2
    /\ terminal = "failed"
    /\ ~cleanPolls
    /\ status_data.status = "complete"
    /\ downloadedFrom = "L1"

\* C27: only a poll answered 404 during the first 5 polls takes the grace
\* branch; every other failed poll goes to the cap, so 3 failed polls in a
\* row that were not such 404s have ended the call with the
\* too-many-failures error, whatever the ids and the error texts are.
C27_GraceOnlyForHttp404 ==
    execFailRun - gracedRun >= max_consecutive_failures =>
        /\ exPc = "raised"
        /\ exResult.val.why = "too many failures"

\* The part of C5 that holds of the code: a plain call, a page fetch and the
\* submit call issue no request after a 401.
NoRequestAfter401BeforePolling == (op = "export" /\ polls > 0) \/ ~reqAfter401

====
